---- MODULE Spec2Model ----
(***************************************************************************)
(* Model of the `eh` crate (src/src/lib.rs): the trait Eh with its single  *)
(* method eh(&self) -> bool and its implementations for bool, the twelve   *)
(* integer types, f32/f64, raw pointers, Wrapping<T>, Option<T> and        *)
(* Result<T, E>.                                                           *)
(*                                                                         *)
(* Values are modelled at the level the code compares them:                *)
(*   - integers as their two's-complement bytes (little endian), so that   *)
(*     128-bit values, MIN and MAX are represented exactly;                *)
(*   - floats as their IEEE-754 bytes, with `!=` being the IEEE comparison *)
(*     (NaN unordered, +0.0 equal to -0.0);                                *)
(*   - raw pointers as an address, a metadata word (unsized referents), and*)
(*     whether the referent is live;                                       *)
(*   - Wrapping / Option / Result as tagged records around a payload.      *)
(***************************************************************************)
EXTENDS Integers, Sequences, FiniteSets, TLC

VARIABLES self, other, ret, again

vars == <<self, other, ret, again>>

\* Bounds of the model.
MaxDepth == 2   \* layers of Wrapping / Option / Result around a primitive
MaxCalls == 2   \* calls of eh() recorded per value
MaxAddr == 2    \* non-null addresses 1..MaxAddr

Slots == {"self", "other"}

(***************************************************************************)
(* Integers: int_eh! { i8 .. usize }                                       *)
(***************************************************************************)
SignedTypes == {"i8", "i16", "i32", "i64", "i128", "isize"}

UnsignedTypes == {"u8", "u16", "u32", "u64", "u128", "usize"}

IntTypes == SignedTypes \cup UnsignedTypes

\* size in bytes of each integer type; isize/usize follow the target
SizesOf(ty) ==
    CASE ty \in {"i8", "u8"} -> {1}
      [] ty \in {"i16", "u16"} -> {2}
      [] ty \in {"i32", "u32"} -> {4}
      [] ty \in {"i64", "u64"} -> {8}
      [] ty \in {"i128", "u128"} -> {16}
      [] ty \in {"isize", "usize"} -> {4, 8}

IntV(ty, bytes) == [tag |-> "int", ty |-> ty, bytes |-> bytes]

\* the literal `0`, typed by inference as the n-byte integer it is compared to
IntLit0(n) == [i \in 1..n |-> 0]

\* `a != b` on two integers of the same type: equal values have equal bits
int_ne(a, b) == a # b

\* a plausible slip: the comparison is done after truncating to the low byte
int_eh_trunc(x) == x.bytes[1] # 0

\* fn eh(&self) -> bool { *self != 0 }
int_eh(x) == int_ne(x.bytes, IntLit0(Len(x.bytes)))

\* T::MIN and T::MAX as bytes
IntMin(ty, n) ==
    [i \in 1..n |-> IF ty \in SignedTypes /\ i = n THEN 128 ELSE 0]

IntMax(ty, n) ==
    [i \in 1..n |-> IF ty \in SignedTypes /\ i = n THEN 127 ELSE 255]

\* sampled byte patterns: top byte, fill bytes, low byte
IntBytes(n) ==
    IF n = 1
    THEN {<<t>> : t \in {0, 1, 127, 128, 255}}
    ELSE {[i \in 1..n |-> IF i = n THEN t ELSE IF i = 1 THEN l ELSE f] :
            t \in {0, 127, 128, 255}, f \in {0, 255}, l \in {0, 1, 255}}

IntVals ==
    UNION {UNION {{IntV(ty, b) : b \in IntBytes(n)} : n \in SizesOf(ty)} :
             ty \in IntTypes}

(***************************************************************************)
(* Booleans                                                                *)
(***************************************************************************)
BoolV(b) == [tag |-> "bool", b |-> b]

\* a plausible slip: the negation
bool_eh_not(x) == ~x.b

\* fn eh(&self) -> bool { *self }
bool_eh(x) == x.b

BoolVals == {BoolV(b) : b \in BOOLEAN}

(***************************************************************************)
(* Floats: float_eh! { f32, f64 }                                          *)
(***************************************************************************)
FloatTypes == {"f32", "f64"}

FloatSize(fty) == IF fty = "f32" THEN 4 ELSE 8

\* width of the exponent field
ExpBits(fty) == IF fty = "f32" THEN 8 ELSE 11

\* the exponent's low bits live in the second byte from the top
ExpLowBits(fty) == ExpBits(fty) - 7

ExpMax(fty) == 2 ^ ExpBits(fty) - 1

ExpBias(fty) == 2 ^ (ExpBits(fty) - 1) - 1

\* bits of the mantissa in the second byte from the top
MantHiMod(fty) == 2 ^ (8 - ExpLowBits(fty))

FloatV(fty, bits) == [tag |-> "float", fty |-> fty, bits |-> bits]

\* IEEE-754 encoding of sign, biased exponent and mantissa bytes
Encode(fty, sign, exp, mhi, fill, low) ==
    LET n == FloatSize(fty)
    IN FloatV(fty,
         [i \in 1..n |->
            IF i = n THEN sign * 128 + exp \div (2 ^ ExpLowBits(fty))
            ELSE IF i = n - 1
                 THEN (exp % (2 ^ ExpLowBits(fty))) * MantHiMod(fty) + mhi
            ELSE IF i = 1 THEN low ELSE fill])

ExpOf(f) ==
    LET n == Len(f.bits)
    IN (f.bits[n] % 128) * (2 ^ ExpLowBits(f.fty))
         + f.bits[n - 1] \div MantHiMod(f.fty)

MantIsZero(f) ==
    LET n == Len(f.bits)
    IN /\ f.bits[n - 1] % MantHiMod(f.fty) = 0
       /\ \A i \in 1..(n - 2) : f.bits[i] = 0

is_nan(f) == ExpOf(f) = ExpMax(f.fty) /\ ~MantIsZero(f)

is_zero(f) == ExpOf(f) = 0 /\ MantIsZero(f)

\* a plausible slip: comparing the bit patterns (to_bits) instead of the values
float_ne_bits(a, b) == a.bits # b.bits

\* `a != b` on two floats of the same type, IEEE-754: NaN is unequal to
\* everything, the two zeros are equal, anything else compares by its bits
float_ne(a, b) ==
    IF is_nan(a) \/ is_nan(b) THEN TRUE
    ELSE IF is_zero(a) /\ is_zero(b) THEN FALSE
    ELSE a.bits # b.bits

\* the literal `0.0`
FloatLit0(fty) == FloatV(fty, [i \in 1..FloatSize(fty) |-> 0])

\* fn eh(&self) -> bool { *self != 0.0 }
float_eh(x) == float_ne(x, FloatLit0(x.fty))

\* EPSILON is 2^-23 (f32) or 2^-52 (f64)
EpsilonExp(fty) == ExpBias(fty) - (IF fty = "f32" THEN 23 ELSE 52)

Epsilon(fty) == Encode(fty, 0, EpsilonExp(fty), 0, 0, 0)

Infinity(fty, sign) == Encode(fty, sign, ExpMax(fty), 0, 0, 0)

FloatZero(fty, sign) == Encode(fty, sign, 0, 0, 0, 0)

FloatOne(fty, sign) == Encode(fty, sign, ExpBias(fty), 0, 0, 0)

\* sampled mantissas: zero, lowest bit, top (quiet) bit, all ones
MantSamples(fty) ==
    {<<0, 0, 0>>, <<0, 0, 1>>, <<MantHiMod(fty) \div 2, 0, 0>>,
     <<MantHiMod(fty) - 1, 255, 255>>}

ExpSamples(fty) == {0, 1, EpsilonExp(fty), ExpBias(fty), ExpMax(fty)}

FloatVals ==
    UNION {{Encode(fty, s, e, m[1], m[2], m[3]) :
              s \in 0..1, e \in ExpSamples(fty), m \in MantSamples(fty)} :
             fty \in FloatTypes}

(***************************************************************************)
(* Raw pointers: *const T and *mut T, T: ?Sized                            *)
(***************************************************************************)
\* addr: the address; meta: the metadata word of a pointer to an unsized
\* referent (0 for a thin pointer); live: whether a referent exists at addr
PtrV(m, a, meta, live) ==
    [tag |-> "ptr", mutable |-> m, addr |-> a, meta |-> meta, live |-> live]

\* a plausible slip: deciding by looking at the referent
is_null_deref(p) == p.addr = 0 \/ ~p.live

\* <*const T>::is_null: the address is compared with 0; the metadata and the
\* referent are not looked at
is_null(p) == p.addr = 0

\* impl<T: ?Sized> Eh for *const T
const_ptr_eh(p) == ~is_null(p)

\* impl<T: ?Sized> Eh for *mut T
mut_ptr_eh(p) == ~is_null(p)

PtrVals ==
    {PtrV(m, 0, meta, FALSE) : m \in BOOLEAN, meta \in 0..1}
      \cup {PtrV(x[1], x[2], x[3], x[4]) :
              x \in BOOLEAN \X (1..MaxAddr) \X (0..1) \X BOOLEAN}

(***************************************************************************)
(* Wrapping<T>, Option<T>, Result<T, E>                                    *)
(***************************************************************************)
WrappingV(x) == [tag |-> "Wrapping", inner |-> x]

SomeV(x) == [tag |-> "Some", val |-> x]

NoneV == [tag |-> "None"]

OkV(x) == [tag |-> "Ok", ok |-> x]

ErrV(e) == [tag |-> "Err", err |-> e]

is_some(o) == o.tag = "Some"

is_ok(r) == r.tag = "Ok"

\* a plausible slip: Option delegating to its payload like Wrapping does
RECURSIVE eh(_)
option_eh_payload(o) == IF o.tag = "Some" THEN eh(o.val) ELSE FALSE

\* impl<T> Eh for Option<T>
option_eh(o) == is_some(o)

\* a plausible slip: Result delegating to its Ok payload
result_eh_payload(r) == IF r.tag = "Ok" THEN eh(r.ok) ELSE FALSE

\* impl<T, E> Eh for Result<T, E>
result_eh(r) == is_ok(r)

\* a plausible slip: a wrapper that only tests that it holds something
wrapping_eh_present(w) == TRUE

\* a plausible slip: delegation written for integer payloads only
wrapping_eh_int_only(w) == IF w.inner.tag = "int" THEN eh(w.inner) ELSE TRUE

\* impl<T: Eh> Eh for Wrapping<T>: self.0.eh()
wrapping_eh(w) == eh(w.inner)

\* static dispatch of the trait method on the value's type
eh(v) ==
    CASE v.tag = "bool" -> bool_eh(v)
      [] v.tag = "int" -> int_eh(v)
      [] v.tag = "float" -> float_eh(v)
      [] v.tag = "ptr" -> IF v.mutable THEN mut_ptr_eh(v) ELSE const_ptr_eh(v)
      [] v.tag = "Wrapping" -> wrapping_eh(v)
      [] v.tag \in {"Some", "None"} -> option_eh(v)
      [] v.tag \in {"Ok", "Err"} -> result_eh(v)

\* the `?` operator of the crate documentation: unwraps Some / Ok, returns
\* early on None / Err
QuestionUnwraps(v) == v.tag \in {"Some", "Ok"}

(***************************************************************************)
(* Input values                                                            *)
(***************************************************************************)
Primitives == BoolVals \cup IntVals \cup FloatVals \cup PtrVals

RECURSIVE Values(_)
Values(d) ==
    IF d = 0 THEN Primitives
    ELSE LET P == Values(d - 1)
         IN Primitives \cup {NoneV}
              \cup {WrappingV(x) : x \in P} \cup {SomeV(x) : x \in P}
              \cup {OkV(x) : x \in P} \cup {ErrV(x) : x \in P}

OtherVals == {BoolV(FALSE), SomeV(IntV("i32", IntLit0(4)))}

Val(s) == IF s = "self" THEN self ELSE other

(***************************************************************************)
(* The state machine: values exist, and eh() is called on them             *)
(***************************************************************************)
Init ==
    /\ self \in Values(MaxDepth)
    /\ other \in OtherVals
    /\ ret = [s \in Slots |-> <<>>]
    /\ again = <<>>

\* the call returns r; `&self` is a shared borrow, the value stays as it is
Return(s, r) ==
    /\ Len(ret[s]) < MaxCalls
    /\ ret' = [ret EXCEPT ![s] = Append(@, r)]
    /\ UNCHANGED <<self, other, again>>

EhBool(s) == Val(s).tag = "bool" /\ Return(s, bool_eh(Val(s)))

EhInt(s) == Val(s).tag = "int" /\ Return(s, int_eh(Val(s)))

EhFloat(s) == Val(s).tag = "float" /\ Return(s, float_eh(Val(s)))

EhConstPtr(s) ==
    /\ Val(s).tag = "ptr" /\ ~Val(s).mutable
    /\ Return(s, const_ptr_eh(Val(s)))

EhMutPtr(s) ==
    /\ Val(s).tag = "ptr" /\ Val(s).mutable
    /\ Return(s, mut_ptr_eh(Val(s)))

EhWrapping(s) == Val(s).tag = "Wrapping" /\ Return(s, wrapping_eh(Val(s)))

\* a plausible slip: Option::take(), which leaves None behind
EhOptionTake(s) ==
    /\ Val(s).tag \in {"Some", "None"}
    /\ Len(ret[s]) < MaxCalls
    /\ ret' = [ret EXCEPT ![s] = Append(@, option_eh(Val(s)))]
    /\ self' = IF s = "self" THEN NoneV ELSE self
    /\ UNCHANGED <<other, again>>

EhOption(s) == Val(s).tag \in {"Some", "None"} /\ Return(s, option_eh(Val(s)))

EhResult(s) == Val(s).tag \in {"Ok", "Err"} /\ Return(s, result_eh(Val(s)))

\* v.eh().eh(): the bool implementation applied to the output of the latest
\* call on self
EhOfEh ==
    /\ Len(again) < Len(ret["self"])
    /\ again' = Append(again, bool_eh(BoolV(ret["self"][Len(again) + 1])))
    /\ UNCHANGED <<self, other, ret>>

Next ==
    \/ \E s \in Slots : EhBool(s)
    \/ \E s \in Slots : EhInt(s)
    \/ \E s \in Slots : EhFloat(s)
    \/ \E s \in Slots : EhConstPtr(s)
    \/ \E s \in Slots : EhMutPtr(s)
    \/ \E s \in Slots : EhWrapping(s)
    \/ \E s \in Slots : EhOption(s)
    \/ \E s \in Slots : EhResult(s)
    \/ EhOfEh

Spec == Init /\ [][Next]_vars

(***************************************************************************)
(* Properties                                                              *)
(***************************************************************************)
\* the results of the calls made on self so far
Results == {ret["self"][i] : i \in DOMAIN ret["self"]}

Called == ret["self"] # <<>>

\* any of the eh implementations, called on self
CallSelf ==
    \/ EhBool("self") \/ EhInt("self") \/ EhFloat("self")
    \/ EhConstPtr("self") \/ EhMutPtr("self") \/ EhWrapping("self")
    \/ EhOption("self") \/ EhResult("self")

\* the integer is not zero: some byte of its representation is not zero
NonZeroInt(v) == \E i \in DOMAIN v.bytes : v.bytes[i] # 0

I32(k) == IntV("i32", [i \in 1..4 |-> IF i = 1 THEN k ELSE 0])

NaN64 == Encode("f64", 0, ExpMax("f64"), MantHiMod("f64") \div 2, 0, 0)

\* payloads, falsy and truthy ones, put in place of a container's payload
PayloadSamples ==
    {BoolV(FALSE), BoolV(TRUE), I32(0), I32(1), FloatZero("f64", 1), NaN64,
     PtrV(FALSE, 0, 0, FALSE), NoneV, WrappingV(I32(0))}

\* the value inside all the layers of Wrapping
RECURSIVE Innermost(_)
Innermost(v) == IF v.tag = "Wrapping" THEN Innermost(v.inner) ELSE v

C2_FloatNonZero ==
    self.tag = "float" =>
      \A r \in Results :
        /\ r = (self \notin {FloatZero(self.fty, 0), FloatZero(self.fty, 1)})
        /\ is_nan(self) => r = TRUE
        /\ self \in {Infinity(self.fty, 0), Infinity(self.fty, 1),
                     Epsilon(self.fty), FloatOne(self.fty, 1)} => r = TRUE

C2_Witness ==
    /\ self = FloatZero("f64", 1)
    /\ Called /\ ret["self"][1] = FALSE

\* C3: for a raw pointer p (const or mut, thin or fat), eh(p) is true exactly
\* when p is not null, and depends on the address alone: a non-null dangling
\* pointer is true, null pointers are false.
C3_PtrNonNull ==
    self.tag = "ptr" =>
      \A r \in Results :
        /\ r = (self.addr # 0)
        /\ \A p \in PtrVals : p.addr = self.addr => eh(p) = r

C3_Witness ==
    /\ self.tag = "ptr" /\ self.addr # 0 /\ ~self.live
    /\ Called /\ ret["self"][1] = TRUE

\* C4: eh(Some(x)) is true for any payload x, eh(None) is false; the payload
\* never changes the result, which is whether `?` would unwrap.
C4_OptionPresence ==
    self.tag \in {"Some", "None"} =>
      \A r \in Results :
        /\ r = (self.tag = "Some")
        /\ r = QuestionUnwraps(self)
        /\ self.tag = "Some" => \A x \in PayloadSamples : eh(SomeV(x)) = r

C4_Witness ==
    /\ self = SomeV(I32(0))
    /\ Called /\ ret["self"][1] = TRUE

\* C5: eh(Ok(x)) is true for any x, eh(Err(e)) is false for any e; the result
\* depends on the variant only.
C5_ResultVariant ==
    self.tag \in {"Ok", "Err"} =>
      \A r \in Results :
        /\ r = (self.tag = "Ok")
        /\ \A x \in PayloadSamples :
             eh(IF self.tag = "Ok" THEN OkV(x) ELSE ErrV(x)) = r

C5_Witness ==
    /\ self = OkV(I32(0))
    /\ Called /\ ret["self"][1] = TRUE

\* C6: eh(Wrapping(n)) is true exactly when the inner integer n != 0, for
\* every integer width and signedness.
C6_WrappingInt ==
    self.tag = "Wrapping" /\ self.inner.tag = "int" =>
      \A r \in Results : r = NonZeroInt(self.inner)

C6_Witness ==
    /\ self = WrappingV(I32(0))
    /\ Called /\ ret["self"][1] = FALSE

\* C7: for a boolean b, eh(b) = b.
C7_BoolIdentity ==
    self.tag = "bool" => \A r \in Results : r = self.b

C7_Witness ==
    /\ self = BoolV(FALSE)
    /\ Called /\ ret["self"][1] = FALSE

\* C8: applying eh to the boolean output of eh gives that same boolean, for
\* a value of any supported type.
C8_Idempotent ==
    \A i \in DOMAIN again : again[i] = ret["self"][i]

C8_Witness ==
    /\ self = ErrV(WrappingV(NaN64))
    /\ again # <<>> /\ again[1] = FALSE

\* C9: eh is pure and total: a call is possible on every value and returns a
\* boolean, the value is unchanged by the call, and every call on the same
\* value returns the same result, however calls on other values interleave.
C9_PureTotal ==
    /\ [](/\ \A s \in Slots : \A i \in DOMAIN ret[s] : ret[s][i] \in BOOLEAN
          /\ \A s \in Slots : \A i, j \in DOMAIN ret[s] : ret[s][i] = ret[s][j]
          /\ Len(ret["self"]) < MaxCalls => ENABLED CallSelf)
    /\ [][self' = self /\ other' = other]_vars

C9_Witness ==
    /\ self.tag = "Some"
    /\ Len(ret["self"]) = MaxCalls /\ ret["other"] # <<>>

\* C10: Wrapping delegates to its payload whatever the payload's type, through
\* any number of layers (Wrapping(NaN) true, Wrapping(-0.0) false,
\* Wrapping(None) false); Option and Result do not: Some(Wrapping(0)) and
\* Ok(Wrapping(0)) are true.
C10_WrappingDelegates ==
    \A r \in Results :
      /\ self.tag = "Wrapping" =>
           /\ r = eh(Innermost(self))
           /\ Innermost(self).tag = "float" /\ is_nan(Innermost(self))
                => r = TRUE
           /\ Innermost(self) \in {FloatZero("f32", 1), FloatZero("f64", 1),
                                   NoneV} => r = FALSE
      /\ self \in {SomeV(WrappingV(x)) : x \in PayloadSamples} => r = TRUE
      /\ self \in {OkV(WrappingV(x)) : x \in PayloadSamples} => r = TRUE

C10_Witness ==
    /\ self = WrappingV(WrappingV(FloatZero("f64", 1)))
    /\ Called /\ ret["self"][1] = FALSE

====
